---- MODULE Spec2Model ----
(***************************************************************************)
(* Party tracker: the App (character list, tabs, local storage), the       *)
(* CharacterForm, the CharacterCard (local edit state, debounced sync,     *)
(* armor class effect, fetchItems), the useDnDAPI lookup hook and the      *)
(* useDnDAutocomplete hook behind the inventory AutoInput.                 *)
(*                                                                         *)
(* Text the code inspects character by character (equipment names, list    *)
(* entries) is a sequence of one-character strings; text the code only     *)
(* compares or stores (character names, detail fields) is a plain string.  *)
(* Time is counted in units of 100 ms.                                     *)
(***************************************************************************)
EXTENDS Integers, Sequences, FiniteSets, TLC

\* ------------------------------------------------------------------------
\* Bounds of the model
\* ------------------------------------------------------------------------
MaxChars == 2          \* records in the characters list
MaxStat == 3           \* highest value a stat is raised to by the edits explored
MaxInFlight == 2       \* lookups (fetchData runs) in flight at once
MaxList == 3           \* entries in a feats / skills / inventory list
MaxEdits == 2          \* edits the user makes on cards in one run
MaxDex == 30           \* highest dexterity score of the armor class inputs

\* ------------------------------------------------------------------------
\* Text helpers (String.prototype methods used by the code)
\* ------------------------------------------------------------------------
Upper == <<"A","B","C","D","E","F","G","H","I","J","K","L","M",
           "N","O","P","Q","R","S","T","U","V","W","X","Y","Z">>
Lower == <<"a","b","c","d","e","f","g","h","i","j","k","l","m",
           "n","o","p","q","r","s","t","u","v","w","x","y","z">>
Digits == {"0","1","2","3","4","5","6","7","8","9"}
Space == " "

RangeOf(s) == { s[i] : i \in DOMAIN s }

LowerChar(c) ==
  IF \E i \in DOMAIN Upper : Upper[i] = c
    THEN Lower[CHOOSE i \in DOMAIN Upper : Upper[i] = c]
    ELSE c

\* String.prototype.toLowerCase
toLowerCase(s) == [i \in DOMAIN s |-> LowerChar(s[i])]

\* String.prototype.includes
includes(s, sub) ==
  \E i \in 0..(Len(s) - Len(sub)) :
    \A j \in 1..Len(sub) : s[i + j] = sub[j]

\* .replace(/[^a-z0-9\s-]/g, "")
SlugChar(c) == c \in RangeOf(Lower) \cup Digits \cup {Space, "-"}
StripNonSlug(s) == SelectSeq(s, SlugChar)

\* .replace(/\s+/g, "-"): every run of spaces becomes one dash
RECURSIVE DashFrom(_, _)
DashFrom(s, i) ==
  IF i > Len(s) THEN <<>>
  ELSE IF s[i] # Space THEN <<s[i]>> \o DashFrom(s, i + 1)
  ELSE IF i < Len(s) /\ s[i + 1] = Space THEN DashFrom(s, i + 1)
  ELSE <<"-">> \o DashFrom(s, i + 1)
DashSpaces(s) == DashFrom(s, 1)

\* the slug of useDnDAPI
Slug(name) == DashSpaces(StripNonSlug(toLowerCase(name)))

\* ------------------------------------------------------------------------
\* JavaScript values
\* ------------------------------------------------------------------------
\* a property that is absent reads as undefined
Has(obj, k) == k \in DOMAIN obj
\* truthiness of a number
Truthy(n) == n # 0
\* a || b on numbers
OrElse(a, b) == IF Truthy(a) THEN a ELSE b
\* obj[k] || dflt where obj[k] is a number or undefined
GetOr(obj, k, dflt) == IF Has(obj, k) THEN OrElse(obj[k], dflt) ELSE dflt
Min(a, b) == IF a < b THEN a ELSE b
Max(a, b) == IF a > b THEN a ELSE b
\* {...a, ...b}
Spread(a, b) ==
  [k \in DOMAIN a \cup DOMAIN b |-> IF k \in DOMAIN b THEN b[k] ELSE a[k]]
EmptyObj == [k \in {} |-> 0]
Null == [null |-> TRUE]


\* ------------------------------------------------------------------------
\* Text values used by the model
\* ------------------------------------------------------------------------
EmptyStr == <<>>
ScaleMailStr == <<"S","c","a","l","e"," ","M","a","i","l">>
RingMailStr == <<"R","i","n","g"," ","M","a","i","l">>
RobeStr == <<"R","o","b","e">>
ShieldStr == <<"S","h","i","e","l","d">>
shieldStr == <<"s","h","i","e","l","d">>
LongswordStr == <<"L","o","n","g","s","w","o","r","d">>
OrbStr == <<"O","r","b">>
scaleMailSlug == <<"s","c","a","l","e","-","m","a","i","l">>
ringMailSlug == <<"r","i","n","g","-","m","a","i","l">>
shieldSlug == <<"s","h","i","e","l","d">>

\* ------------------------------------------------------------------------
\* The rules API as the hook sees it: what GET <endpoint>/<slug> answers
\* with when the entry exists.  Any request may also answer non-OK or throw.
\* ------------------------------------------------------------------------
NoDesc == <<>>
EquipmentCatalogue ==
  [s \in {scaleMailSlug, ringMailSlug, shieldSlug, Slug(OrbStr)} |->
     IF s = Slug(OrbStr)
       THEN [index |-> s, name |-> OrbStr,
             equipment_category |-> "Adventuring Gear", desc |-> <<"glows">>]
     ELSE IF s = scaleMailSlug
       THEN [index |-> scaleMailSlug, name |-> ScaleMailStr,
             equipment_category |-> "Armor", desc |-> NoDesc,
             armor_class |-> [base |-> 14, dex_bonus |-> TRUE, max_bonus |-> 2]]
     ELSE IF s = ringMailSlug
       THEN [index |-> ringMailSlug, name |-> RingMailStr,
             equipment_category |-> "Armor", desc |-> NoDesc,
             armor_class |-> [base |-> 14, dex_bonus |-> FALSE]]
       ELSE [index |-> shieldSlug, name |-> ShieldStr,
             equipment_category |-> "Armor", desc |-> NoDesc,
             armor_class |-> [base |-> 2, dex_bonus |-> FALSE]]]

\* magic-items entries: one that shares its slug with an equipment entry
MagicCatalogue ==
  [s \in {ringMailSlug} |->
     [index |-> ringMailSlug, name |-> RingMailStr,
      equipment_category |-> "Armor", desc |-> <<"magic">>]]

\* the index list GET <endpoint> answers with
EquipmentIndex ==
  << [index |-> scaleMailSlug, name |-> ScaleMailStr],
     [index |-> ringMailSlug, name |-> RingMailStr],
     [index |-> shieldSlug, name |-> ShieldStr],
     [index |-> <<"o","r","b","-","2">>, name |-> <<"O","R","B">>],
     [index |-> Slug(OrbStr), name |-> <<"G","l","o","b","e">>] >>

\* ------------------------------------------------------------------------
\* data/weaponShieldData (imported by the card; only acBonus, name and
\* aliases are read)
\* ------------------------------------------------------------------------
weaponShieldData ==
  [k \in {"Shield", "Longsword"} |->
     IF k = "Shield"
       THEN [name |-> ShieldStr, acBonus |-> 2, aliases |-> {}]
       ELSE [name |-> LongswordStr, aliases |-> {}]]


\* ------------------------------------------------------------------------
\* useDnDAPI.jsx: name matching helpers
\* ------------------------------------------------------------------------
\* .replace(/\(.*?\)/g, ""): drop every "(" up to the next ")"
RECURSIVE DropParens(_)
DropParens(s) ==
  IF s = <<>> THEN <<>>
  ELSE IF Head(s) = "(" /\ \E i \in 2..Len(s) : s[i] = ")"
         THEN LET close == CHOOSE i \in 2..Len(s) :
                             /\ s[i] = ")"
                             /\ \A j \in 2..(i - 1) : s[j] # ")"
              IN  DropParens(SubSeq(s, close + 1, Len(s)))
         ELSE <<Head(s)>> \o DropParens(Tail(s))

\* .replace(/[^a-z0-9\s]/g, " ")
PunctToSpace(s) ==
  [i \in DOMAIN s |->
     IF s[i] \in RangeOf(Lower) \cup Digits \cup {Space} THEN s[i] ELSE Space]

\* .replace(/\s+/g, " ")
RECURSIVE CollapseSpaces(_)
CollapseSpaces(s) ==
  IF s = <<>> THEN <<>>
  ELSE IF Head(s) = Space /\ Len(s) > 1 /\ s[2] = Space
         THEN CollapseSpaces(Tail(s))
         ELSE <<Head(s)>> \o CollapseSpaces(Tail(s))

\* String.prototype.trim
RECURSIVE trim(_)
trim(s) ==
  IF s = <<>> THEN <<>>
  ELSE IF Head(s) = Space THEN trim(Tail(s))
  ELSE IF s[Len(s)] = Space THEN trim(SubSeq(s, 1, Len(s) - 1))
  ELSE s

normalize(str) == trim(CollapseSpaces(PunctToSpace(DropParens(toLowerCase(str)))))

\* .split(" ").filter(Boolean), as the sequence of words
RECURSIVE SplitWords(_, _)
SplitWords(s, cur) ==
  IF s = <<>> THEN (IF cur = <<>> THEN <<>> ELSE <<cur>>)
  ELSE IF Head(s) = Space
         THEN (IF cur = <<>> THEN <<>> ELSE <<cur>>) \o SplitWords(Tail(s), <<>>)
         ELSE SplitWords(Tail(s), Append(cur, Head(s)))

tokens(s) == SplitWords(normalize(s), <<>>)

tokenScore(a, b) == Cardinality(RangeOf(tokens(a)) \cap RangeOf(tokens(b)))

\* variant of the scoring loop in which a later entry with an equal score
\* replaces the best
RECURSIVE BestOfLast(_, _, _)
BestOfLast(results, name, n) ==
  IF n = 0 THEN <<Null, 0>>
  ELSE LET prev == BestOfLast(results, name, n - 1)
           score == tokenScore(results[n].name, name)
       IN  IF score > 0 /\ score >= prev[2] THEN <<results[n], score>> ELSE prev

\* the running maximum of the scoring loop: <<best, bestScore>> after the
\* first n entries; a later entry replaces the best only with a higher score
RECURSIVE BestOf(_, _, _)
BestOf(results, name, n) ==
  IF n = 0 THEN <<Null, 0>>
  ELSE LET prev == BestOf(results, name, n - 1)
           score == tokenScore(results[n].name, name)
       IN  IF score > prev[2] THEN <<results[n], score>> ELSE prev

\* the entry of the index list the fallback fetches, or Null
FindMatch(results, name) ==
  LET slug == Slug(name)
      normName == normalize(name)
      exact == { i \in DOMAIN results :
                   \/ normalize(results[i].name) = normName
                   \/ toLowerCase(results[i].index) = slug }
      best == BestOf(results, name, Len(results))
  IN  IF exact # {}
        THEN results[CHOOSE i \in exact : \A j \in exact : i <= j]
        ELSE IF best[2] > 0 THEN best[1] ELSE Null

MagicKeywords ==
  { <<"p","o","t","i","o","n">>, <<"r","i","n","g">>, <<"w","a","n","d">>,
    <<"s","t","a","f","f">>, <<"s","c","r","o","l","l">>,
    <<"a","m","u","l","e","t">>, <<"c","l","o","a","k">>,
    <<"b","o","o","t","s">>, <<"s","t","o","n","e">>, <<"o","r","b">>,
    <<"g","e","m">>, <<"o","f">>, <<"r","o","d">> }

looksMagic(name) == \E kw \in MagicKeywords : includes(toLowerCase(name), kw)

\* !json || !json.desc || json.desc.length === 0
LacksDesc(json) == json = Null \/ ~Has(json, "desc") \/ Len(json.desc) = 0

\* ------------------------------------------------------------------------
\* getTooltipContent: which branch renders
\* ------------------------------------------------------------------------
getTooltipContent(loading, data, error) ==
  IF loading THEN "Loading"
  ELSE IF error # Null THEN "Error"
  ELSE IF data = Null THEN "No data found"
  ELSE IF Has(data, "desc") /\ Len(data.desc) > 0 /\ ~Has(data, "equipment_category")
    THEN "Description"
  ELSE IF Has(data, "equipment_category") THEN "Item details"
  ELSE "No information available"

\* ------------------------------------------------------------------------
\* CharacterCard: armor class
\* ------------------------------------------------------------------------
getModifier(val) == (val - 10) \div 2

\* the armor and dexterity part of the AC effect
ArmorDexAC(stats, armorData) ==
  LET dex == GetOr(stats, "dexterity", 10)
      start == 10 + getModifier(dex)
  IN  IF armorData # Null /\ Has(armorData, "armor_class")
        THEN LET acData == armorData.armor_class
                 base == GetOr(acData, "base", start)
                 dexMod == getModifier(dex)
                 maxBonus == IF Has(acData, "max_bonus") THEN acData.max_bonus ELSE 0
             IN  IF Has(acData, "dex_bonus") /\ acData.dex_bonus
                   THEN base + (IF Truthy(maxBonus) THEN Min(dexMod, maxBonus) ELSE dexMod)
                   ELSE base
        ELSE start

\* what one hand adds
HandBonus(hand) ==
  IF hand = EmptyStr THEN 0
  ELSE LET found == { k \in DOMAIN weaponShieldData :
                        \/ toLowerCase(weaponShieldData[k].name) = toLowerCase(hand)
                        \/ \E a \in weaponShieldData[k].aliases :
                             toLowerCase(a) = toLowerCase(hand) }
       IN  IF found # {} /\ GetOr(weaponShieldData[CHOOSE k \in found : TRUE], "acBonus", 0) # 0
             THEN weaponShieldData[CHOOSE k \in found : TRUE].acBonus
           ELSE IF includes(toLowerCase(hand), shieldStr)
             THEN GetOr(weaponShieldData["Shield"], "acBonus", 0)
           ELSE 0

\* equipment[slot], undefined read as no item
Equipped(equipment, slot) == IF Has(equipment, slot) THEN equipment[slot] ELSE EmptyStr

\* the value the AC effect passes to setAc
ComputeAC(stats, equipment, armorData) ==
  ArmorDexAC(stats, armorData)
    + HandBonus(Equipped(equipment, "mainHand"))
    + HandBonus(Equipped(equipment, "offHand"))


\* ------------------------------------------------------------------------
\* State
\* ------------------------------------------------------------------------
VARIABLES
  characters,    \* App: the in-memory list of character records
  activeTab,     \* App: "create" or a character name
  storage,       \* localStorage: the "characters" entry (NoItem when absent)
  savePending,   \* App: the save effect of the last render has not run yet
  stats,         \* card: useState({...character.stats})
  equipment,     \* card: slot -> item name
  ac,            \* card: the displayed armor class
  feats,         \* card
  skills,        \* card
  inventory,     \* card
  details,       \* card: race, class, ... picture
  isEditing,     \* card: the detail fields are shown as inputs
  timers,        \* pending setTimeout callbacks of the sync effect
  sinceEdit,     \* time since the synced local state last changed (capped)
  info,          \* card: slot -> {data, loading, error} of useEquipmentInfo
  requests,      \* fetchData runs in flight
  endpointIndexCache,  \* module-level Map: endpoint -> its cached index list
  edits,         \* number of edits the user has made on cards
  itemDetails,   \* card: inventory name -> the entry fetchItems stored for it
  itemRuns,      \* fetchItems runs in flight, in the order they were started
  fetched,       \* names the run started for the current inventory got an
                 \* OK answer for
  query,         \* inventory AutoInput: the text typed into it
  suggestions,   \* its useDnDAutocomplete: the suggestion list
  loading,       \* its useDnDAutocomplete: the loading flag
  suggestRuns    \* fetchSuggestions runs in flight, in the order they started

appVars == <<characters, activeTab, storage, savePending>>
cardVars == <<stats, equipment, ac, feats, skills, inventory, details, isEditing>>
hookVars == <<info, requests, endpointIndexCache>>
itemVars == <<itemDetails, itemRuns, fetched>>
autoVars == <<query, suggestions, loading, suggestRuns>>
vars == <<characters, activeTab, storage, savePending, stats, equipment, ac,
          feats, skills, inventory, details, isEditing, timers, sinceEdit,
          info, requests, endpointIndexCache, edits, itemDetails, itemRuns,
          fetched, query, suggestions, loading, suggestRuns>>

\* ------------------------------------------------------------------------
\* Inputs explored
\* ------------------------------------------------------------------------
NameInputs == {"ann", "bob"}
RaceInputs == {"elf"}
DetailInputs == {"orc"}
Slots == {"armor", "mainHand", "offHand"}
ArmorInputs == {EmptyStr, ScaleMailStr, RingMailStr, RobeStr}
HandInputs == {EmptyStr, ShieldStr}
ListInputs == {<<"x">>}
Lists == {"feats", "skills", "inventory"}
SyncDelay == 3     \* setTimeout(..., 300), in units of 100 ms

\* ------------------------------------------------------------------------
\* localStorage: JSON.stringify / JSON.parse of the characters list.
\* JSON text is modelled as nested <<kind, content>> nodes: objects become
\* the sequence of their <<key, node>> members in a fixed key order.
\* ------------------------------------------------------------------------
NoItem == <<"absent">>
KeyOrder ==
  << "name", "race", "class", "subClass", "alignment", "specialAbility",
     "familiar", "bio", "picture", "stats", "feats", "skillsSpells",
     "inventory", "equipment",
     "level", "strength", "dexterity", "constitution", "intelligence",
     "wisdom", "charisma", "currentHP", "maxHP", "ac",
     "armor", "mainHand", "offHand", "head", "trinket" >>
ObjectKeys == {"stats", "equipment"}
ArrayKeys == {"feats", "skillsSpells", "inventory"}

RECURSIVE StringifyMembers(_, _, _)
StringifyMembers(obj, i, depth) ==
  IF i > Len(KeyOrder) THEN <<>>
  ELSE LET k == KeyOrder[i]
           rest == StringifyMembers(obj, i + 1, depth)
       IN  IF ~Has(obj, k) THEN rest
           ELSE IF depth = 0 /\ k \in ObjectKeys
             THEN << <<k, <<"object", StringifyMembers(obj[k], 1, 1)>> >> >> \o rest
           ELSE IF depth = 0 /\ k \in ArrayKeys
             THEN << <<k, <<"array", obj[k]>> >> >> \o rest
           ELSE << <<k, <<"value", obj[k]>> >> >> \o rest

\* JSON.stringify(characters)
Stringify(list) ==
  <<"array", [i \in DOMAIN list |-> <<"object", StringifyMembers(list[i], 1, 0)>>]>>

RECURSIVE ParseNode(_)
ParseNode(node) ==
  IF node[1] = "object"
    THEN LET ms == node[2]
         IN  [k \in { ms[i][1] : i \in DOMAIN ms } |->
                ParseNode((CHOOSE m \in RangeOf(ms) : m[1] = k)[2])]
    ELSE node[2]

\* JSON.parse(saved)
Parse(text) == [i \in DOMAIN text[2] |-> ParseNode(text[2][i])]

\* ------------------------------------------------------------------------
\* CharacterForm.handleSubmit: the record passed to addCharacter
\* ------------------------------------------------------------------------
NewChar(name, race) ==
  [name |-> name, race |-> race, class |-> "", subClass |-> "",
   alignment |-> "", specialAbility |-> "", familiar |-> "None", bio |-> "",
   stats |-> [level |-> 1, strength |-> 3, dexterity |-> 3,
              constitution |-> 3, intelligence |-> 3, wisdom |-> 3,
              charisma |-> 3],
   feats |-> <<>>, skillsSpells |-> <<>>, inventory |-> <<>>,
   equipment |-> EmptyObj]

\* ------------------------------------------------------------------------
\* App: derived values
\* ------------------------------------------------------------------------
\* characters.find((c) => c.name === tab) exists
HasCharacter(list, tab) == \E i \in DOMAIN list : list[i].name = tab
\* characters.find((c) => c.name === tab)
FindCharacter(list, tab) ==
  list[CHOOSE i \in DOMAIN list :
         /\ list[i].name = tab
         /\ \A j \in DOMAIN list : list[j].name = tab => i <= j]
\* the tab content is a CharacterCard
CardShownIn(list, tab) == tab # "create" /\ HasCharacter(list, tab)
CardShown == CardShownIn(characters, activeTab)


\* ------------------------------------------------------------------------
\* CharacterCard: local state, sync effect, AC effect
\* ------------------------------------------------------------------------
DetailKeys == {"race", "class", "subClass", "alignment", "specialAbility",
               "familiar", "bio", "picture"}
\* obj[k] || dflt for text
TextOr(obj, k, dflt) == IF Has(obj, k) /\ obj[k] # "" THEN obj[k] ELSE dflt
\* [...(obj[k] || [])]
ListOr(obj, k) == IF Has(obj, k) THEN obj[k] ELSE <<>>

FreshInfo == [data |-> Null, loading |-> FALSE, error |-> Null]
NoInfo == [s \in Slots |-> FreshInfo]

\* variant of the payload whose stats are sent without the armor class
SnapshotWithoutAc(st, a, eq, fe, sk, inv, de) ==
  Spread(Spread([stats |-> st], de),
         [equipment |-> eq, feats |-> fe, skillsSpells |-> sk, inventory |-> inv])

\* the object the timeout callback passes to onUpdate, built from the values
\* of the render in which the effect ran
Snapshot(st, a, eq, fe, sk, inv, de) ==
  Spread(Spread([stats |-> Spread(st, [ac |-> a])], de),
         [equipment |-> eq, feats |-> fe, skillsSpells |-> sk, inventory |-> inv])

NewTimer(name, payload) == [left |-> SyncDelay, name |-> name, payload |-> payload]

\* variant of the sync effect whose cleanup does not clear the pending timeout
SyncEffectNoCleanup(pending, rerun, name, payload) ==
  IF rerun THEN pending \cup {NewTimer(name, payload)} ELSE pending

\* the sync effect: when a dependency changed, its cleanup clears the pending
\* timeout and it sets a new one
SyncEffect(pending, rerun, name, payload) ==
  IF rerun THEN {NewTimer(name, payload)} ELSE pending

\* the fetchItems effect for a new inventory: the run goes up to its first
\* await; with no item to fetch it calls setItemDetails({}) at once.  Runs
\* started for an earlier inventory keep running.
fetchItems(runs, shown, nInventory) ==
  LET earlier == [k \in DOMAIN runs |-> [runs[k] EXCEPT !.latest = FALSE]]
  IN  /\ itemDetails' = IF nInventory = <<>> THEN EmptyObj ELSE shown
      /\ itemRuns' = IF nInventory = <<>>
                       THEN earlier
                       ELSE Append(earlier, [inv |-> nInventory, i |-> 1,
                                             details |-> EmptyObj, latest |-> TRUE])
      /\ fetched' = {}

\* the dependencies of the AC effect, compared the way React compares them
DexDep(st) == IF Has(st, "dexterity") THEN st.dexterity ELSE -1
AcDepsChanged(nStats, nEquipment, dataSet) ==
  \/ dataSet
  \/ DexDep(nStats) # DexDep(stats)
  \/ Equipped(nEquipment, "mainHand") # Equipped(equipment, "mainHand")
  \/ Equipped(nEquipment, "offHand") # Equipped(equipment, "offHand")
  \/ Has(nEquipment, "mainHand") # Has(equipment, "mainHand")
  \/ Has(nEquipment, "offHand") # Has(equipment, "offHand")

\* A render of the mounted card after its setters ran: the new local values,
\* whether the armor hook got new data (dataSet) and whether a dependency of
\* the sync effect got a new reference (newRefs).  The AC effect and the sync
\* effect run as part of it.
CardRender(nStats, nEquipment, nFeats, nSkills, nInventory, nDetails, armorData, dataSet, newRefs, pending) ==
  LET nAc == IF AcDepsChanged(nStats, nEquipment, dataSet)
               THEN ComputeAC(nStats, nEquipment, armorData)
               ELSE ac
      edited == <<nStats, nEquipment, nFeats, nSkills, nInventory, nDetails, nAc>>
                  # <<stats, equipment, feats, skills, inventory, details, ac>>
  IN  /\ stats' = nStats
      /\ equipment' = nEquipment
      /\ feats' = nFeats
      /\ skills' = nSkills
      /\ inventory' = nInventory
      /\ details' = nDetails
      /\ ac' = nAc
      /\ timers' = SyncEffect(pending, newRefs \/ nAc # ac, activeTab,
                     Snapshot(nStats, nAc, nEquipment, nFeats, nSkills,
                              nInventory, nDetails))
      /\ sinceEdit' = IF edited THEN 0 ELSE sinceEdit
      /\ IF nInventory # inventory
           THEN fetchItems(itemRuns, itemDetails, nInventory)
           ELSE UNCHANGED itemVars

\* the lookups a freshly mounted card starts: one per slot holding a name
FreeIds(reqs) == (1..MaxInFlight) \ { r.id : r \in reqs }
RECURSIVE StartAll(_, _, _)
StartAll(reqs, eq, slots) ==
  IF slots = {} THEN reqs
  ELSE LET s == CHOOSE x \in slots : TRUE
       IN  IF Equipped(eq, s) = EmptyStr \/ FreeIds(reqs) = {}
             THEN StartAll(reqs, eq, slots \ {s})
             ELSE StartAll(reqs \cup {[id |-> CHOOSE i \in FreeIds(reqs) :
                                                \A j \in FreeIds(reqs) : i <= j,
                                       slot |-> s, name |-> Equipped(eq, s),
                                       slug |-> Slug(Equipped(eq, s)),
                                       live |-> TRUE, pc |-> "primary",
                                       json |-> Null, match |-> Null]},
                           eq, slots \ {s})
NamedSlots(eq) == { s \in Slots : Equipped(eq, s) # EmptyStr }

\* requests of an unmounted card keep running; their setters no longer act
Orphaned(reqs) == { [r EXCEPT !.live = FALSE] : r \in reqs }

\* the state of a fresh AutoInput: useState(value || ""), useState([]),
\* useState(false); the hook's first effect finds an empty query
AutoInputFresh ==
  /\ query = EmptyStr
  /\ suggestions = <<>>
  /\ loading = FALSE
  /\ suggestRuns = <<>>

\* the AutoInput of a card that is mounted or unmounted: fresh state or
\* none; the runs of an unmounted hook no longer act
AutoInputMount ==
  /\ query' = EmptyStr
  /\ suggestions' = <<>>
  /\ loading' = FALSE
  /\ suggestRuns' = <<>>

\* Mounting the card of record c: the useState initialisers, then the first
\* run of the AC effect, the sync effect and the three lookup effects.
MountCard(c) ==
  LET st == c.stats
      eq == IF Has(c, "equipment") THEN c.equipment ELSE EmptyObj
      fe == ListOr(c, "feats")
      sk == ListOr(c, "skillsSpells")
      inv == ListOr(c, "inventory")
      de == [k \in DetailKeys |->
               TextOr(c, k, IF k = "familiar" THEN "None" ELSE "")]
      nAc == ComputeAC(st, eq, Null)
      old == Orphaned(requests)
  IN  /\ Cardinality(old) + Cardinality(NamedSlots(eq)) <= MaxInFlight
      /\ stats' = st
      /\ equipment' = eq
      /\ feats' = fe
      /\ skills' = sk
      /\ inventory' = inv
      /\ details' = de
      /\ isEditing' = FALSE
      /\ ac' = nAc
      /\ timers' = SyncEffect({}, TRUE, c.name, Snapshot(st, nAc, eq, fe, sk, inv, de))
      /\ sinceEdit' = 0
      /\ requests' = StartAll(old, eq, Slots)
      /\ info' = [s \in Slots |->
                    [FreshInfo EXCEPT !.loading = (Equipped(eq, s) # EmptyStr)]]
      /\ fetchItems(<<>>, EmptyObj, inv)
      /\ AutoInputMount
      /\ UNCHANGED endpointIndexCache

\* No card on screen: the unmounted card's timeout is cleared by the cleanup
NoCard ==
  /\ stats' = EmptyObj
  /\ equipment' = EmptyObj
  /\ feats' = <<>>
  /\ skills' = <<>>
  /\ inventory' = <<>>
  /\ details' = EmptyObj
  /\ isEditing' = FALSE
  /\ ac' = 0
  /\ timers' = {}
  /\ sinceEdit' = 0
  /\ requests' = Orphaned(requests)
  /\ info' = NoInfo
  /\ itemDetails' = EmptyObj
  /\ itemRuns' = <<>>
  /\ fetched' = {}
  /\ AutoInputMount
  /\ UNCHANGED endpointIndexCache

\* the tab content after the App rendered with a new list or tab
ShowTab(list, tab) ==
  IF CardShownIn(list, tab) THEN MountCard(FindCharacter(list, tab)) ELSE NoCard


\* variant of the migration that deletes the head entry only
MigrateHeadOnly(char) ==
  IF Has(char, "equipment")
    THEN [char EXCEPT !.equipment =
            [k \in DOMAIN char.equipment \ {"head"} |-> char.equipment[k]]]
    ELSE char

\* variant of the migration that drops the equipment object itself
MigrateDropsEquipment(char) ==
  IF Has(char, "equipment")
    THEN [k \in DOMAIN char \ {"equipment"} |-> char[k]]
    ELSE char

\* ------------------------------------------------------------------------
\* App: operations
\* ------------------------------------------------------------------------
\* the load-time migration of one stored record
Migrate(char) ==
  IF Has(char, "equipment")
    THEN [char EXCEPT !.equipment =
            [k \in DOMAIN char.equipment \ {"head", "trinket"} |-> char.equipment[k]]]
    ELSE char

\* the useState initialiser of characters
LoadCharacters(saved) ==
  LET initialChars == IF saved # NoItem THEN Parse(saved) ELSE <<>>
  IN  [i \in DOMAIN initialChars |-> Migrate(initialChars[i])]

\* prev.map((c) => (c.name === name ? { ...c, ...updatedData } : c))
updateCharacter(prev, name, updatedData) ==
  [i \in DOMAIN prev |->
     IF prev[i].name = name THEN Spread(prev[i], updatedData) ELSE prev[i]]

\* characters.filter((c) => c.name !== name)
RECURSIVE WithoutName(_, _)
WithoutName(list, name) ==
  IF list = <<>> THEN <<>>
  ELSE IF Head(list).name = name THEN WithoutName(Tail(list), name)
  ELSE <<Head(list)>> \o WithoutName(Tail(list), name)

\* CharacterForm.handleSubmit -> addCharacter(newChar)
addCharacter(char) ==
  /\ UNCHANGED edits
  /\ ~savePending
  /\ activeTab = "create"
  /\ Len(characters) < MaxChars
  /\ characters' = Append(characters, char)
  /\ activeTab' = char.name
  /\ savePending' = TRUE
  /\ ShowTab(Append(characters, char), char.name)
  /\ UNCHANGED storage

\* a tab button: setActiveTab(tab)
ClickTab(tab) ==
  /\ UNCHANGED edits
  /\ ~savePending
  /\ tab # activeTab
  /\ tab = "create" \/ HasCharacter(characters, tab)
  /\ activeTab' = tab
  /\ ShowTab(characters, tab)
  /\ UNCHANGED <<characters, storage, savePending>>

\* variant of deleteCharacter without the reset of the active tab
deleteCharacterKeepsTab ==
  /\ UNCHANGED edits
  /\ ~savePending
  /\ CardShown
  /\ characters' = WithoutName(characters, activeTab)
  /\ UNCHANGED activeTab
  /\ savePending' = TRUE
  /\ NoCard
  /\ UNCHANGED storage

\* the card's Delete button: onDelete -> deleteCharacter(activeCharacter.name)
deleteCharacter ==
  /\ UNCHANGED edits
  /\ ~savePending
  /\ CardShown
  /\ characters' = WithoutName(characters, activeTab)
  /\ activeTab' = "create"
  /\ savePending' = TRUE
  /\ NoCard
  /\ UNCHANGED storage

\* variant of the save effect with an empty dependency list: it runs after
\* the first render only
SaveEffectOnMountOnly ==
  /\ savePending
  /\ storage' = IF storage = NoItem THEN Stringify(characters) ELSE storage
  /\ savePending' = FALSE
  /\ UNCHANGED <<characters, activeTab, cardVars, timers, sinceEdit, hookVars, edits, itemVars, autoVars>>

\* the save effect: localStorage.setItem("characters", JSON.stringify(characters))
SaveEffect ==
  /\ UNCHANGED <<edits, autoVars>>
  /\ savePending
  /\ storage' = Stringify(characters)
  /\ savePending' = FALSE
  /\ UNCHANGED <<characters, activeTab, cardVars, timers, sinceEdit, hookVars, itemVars>>

\* ------------------------------------------------------------------------
\* Time and the sync timer
\* ------------------------------------------------------------------------
Tick ==
  /\ UNCHANGED <<edits, autoVars>>
  /\ ~savePending
  /\ timers # {}
  /\ \A t \in timers : t.left > 0
  /\ timers' = { [t EXCEPT !.left = t.left - 1] : t \in timers }
  /\ sinceEdit' = Min(SyncDelay, sinceEdit + 1)
  /\ UNCHANGED <<appVars, cardVars, hookVars, itemVars>>

\* the timeout callback: onUpdate(character.name, {...}); the App renders
\* with the new list and hands the card a new updateCharacter function
TimerFire(t) ==
  /\ UNCHANGED <<edits, autoVars>>
  /\ ~savePending
  /\ t \in timers
  /\ t.left = 0
  /\ characters' = updateCharacter(characters, t.name, t.payload)
  /\ savePending' = TRUE
  /\ CardRender(stats, equipment, feats, skills, inventory, details,
                info["armor"].data, FALSE, TRUE, timers \ {t})
  /\ UNCHANGED <<activeTab, storage, isEditing, hookVars>>

\* ------------------------------------------------------------------------
\* CharacterCard: edits
\* ------------------------------------------------------------------------
CanEdit ==
  /\ ~savePending
  /\ CardShown
  /\ edits < MaxEdits
  /\ edits' = edits + 1
  /\ UNCHANGED autoVars

\* variant of the updater without the clamp at 0
AdjustedStatsUnclamped(prev, stat, delta) ==
  Spread(prev, [k \in {stat} |-> GetOr(prev, stat, 0) + delta])

\* (prev) => ({...prev, [stat]: Math.max(0, (prev[stat] || 0) + delta)})
AdjustedStats(prev, stat, delta) ==
  Spread(prev, [k \in {stat} |-> Max(0, GetOr(prev, stat, 0) + delta)])

adjustStat(stat, delta) ==
  /\ CanEdit
  /\ AdjustedStats(stats, stat, delta)[stat] <= MaxStat
  /\ CardRender(AdjustedStats(stats, stat, delta), equipment, feats, skills,
                inventory, details, info["armor"].data, FALSE, TRUE, timers)
  /\ UNCHANGED <<appVars, isEditing, hookVars>>

\* useDnDAPI effect of one slot after its name changed: a new fetchData run
\* starts unless the name is empty
StartLookup(slot, old, new) ==
  IF new = old \/ new = EmptyStr
    THEN UNCHANGED <<info, requests>>
    ELSE /\ FreeIds(requests) # {}
         /\ requests' = StartAll(requests, [k \in {slot} |-> new], {slot})
         /\ info' = [info EXCEPT ![slot].loading = TRUE, ![slot].error = Null]

\* variant of the equipment input that is disabled while its lookup runs
handleEquipChangeWhenIdle(slot, value) ==
  /\ CanEdit
  /\ ~info[slot].loading
  /\ StartLookup(slot, Equipped(equipment, slot), value)
  /\ CardRender(stats, Spread(equipment, [k \in {slot} |-> value]), feats,
                skills, inventory, details, info["armor"].data, FALSE, TRUE,
                timers)
  /\ UNCHANGED <<appVars, isEditing, endpointIndexCache>>

\* (prev) => ({...prev, [slot]: value})
handleEquipChange(slot, value) ==
  /\ CanEdit
  /\ StartLookup(slot, Equipped(equipment, slot), value)
  /\ CardRender(stats, Spread(equipment, [k \in {slot} |-> value]), feats,
                skills, inventory, details, info["armor"].data, FALSE, TRUE,
                timers)
  /\ UNCHANGED <<appVars, isEditing, endpointIndexCache>>

\* variant of handleAdd without the includes check
AddedUnchecked(list, val) ==
  LET trimmed == trim(val)
  IN  IF trimmed # EmptyStr THEN Append(list, trimmed) ELSE list

\* handleAdd(setter, list, val): the list the setter receives, or the old one
Added(list, val) ==
  LET trimmed == trim(val)
  IN  IF trimmed # EmptyStr /\ trimmed \notin RangeOf(list)
        THEN Append(list, trimmed)
        ELSE list

\* list.filter((x) => x !== val)
Removed(list, val) == SelectSeq(list, LAMBDA x : x # val)

ListOf(which) ==
  IF which = "feats" THEN feats ELSE IF which = "skills" THEN skills ELSE inventory

\* a render after the setter of one of the three lists ran
SetList(which, new) ==
  CardRender(stats, equipment,
             IF which = "feats" THEN new ELSE feats,
             IF which = "skills" THEN new ELSE skills,
             IF which = "inventory" THEN new ELSE inventory,
             details, info["armor"].data, FALSE, TRUE, timers)

handleAdd(which, val) ==
  /\ CanEdit
  /\ Len(Added(ListOf(which), val)) <= MaxList
  /\ IF Added(ListOf(which), val) # ListOf(which)
       THEN SetList(which, Added(ListOf(which), val))
       ELSE UNCHANGED <<stats, equipment, ac, feats, skills, inventory,
                        details, timers, sinceEdit, itemVars>>
  /\ UNCHANGED <<appVars, isEditing, hookVars>>

handleRemove(which, val) ==
  /\ CanEdit
  /\ val \in RangeOf(ListOf(which))
  /\ SetList(which, Removed(ListOf(which), val))
  /\ UNCHANGED <<appVars, isEditing, hookVars>>

\* the Edit / Save button of the detail pane
ToggleEditing ==
  /\ CanEdit
  /\ isEditing' = ~isEditing
  /\ UNCHANGED <<appVars, stats, equipment, ac, feats, skills, inventory,
                 details, timers, sinceEdit, hookVars, itemVars>>

\* (prev) => ({...prev, [e.target.name]: e.target.value})
handleDetailChange(field, value) ==
  /\ CanEdit
  /\ isEditing
  /\ CardRender(stats, equipment, feats, skills, inventory,
                Spread(details, [k \in {field} |-> value]),
                info["armor"].data, FALSE, TRUE, timers)
  /\ UNCHANGED <<appVars, isEditing, hookVars>>


\* ------------------------------------------------------------------------
\* useDnDAPI: one fetchData run, step by step (endpoint "equipment")
\* ------------------------------------------------------------------------
Outcomes == {"ok", "notok", "throw"}
ErrPrimary == [message |-> "Primary fetch failed"]
ErrIndex == [message |-> "Index fetch failed"]
ErrFallback == [message |-> "Fallback HTTP"]
ErrNetwork == [message |-> "Failed to fetch"]

CardUnchanged == UNCHANGED <<stats, equipment, ac, feats, skills, inventory,
                             details, timers, sinceEdit, itemVars>>

\* variant of the success path that also writes the entry's index into the
\* slot the lookup was started for
FinishStoresIndex(r, json) ==
  /\ requests' = requests \ {r}
  /\ IF r.live
       THEN /\ info' = [info EXCEPT ![r.slot].data = json, ![r.slot].loading = FALSE]
            /\ CardRender(stats,
                          IF Has(json, "index")
                            THEN Spread(equipment, [k \in {r.slot} |-> json.index])
                            ELSE equipment,
                          feats, skills, inventory, details, json,
                          r.slot = "armor", TRUE, timers)
       ELSE /\ UNCHANGED info
            /\ CardUnchanged

\* setData(json); finally setLoading(false)
Finish(r, json) ==
  /\ requests' = requests \ {r}
  /\ IF r.live
       THEN /\ info' = [info EXCEPT ![r.slot].data = json, ![r.slot].loading = FALSE]
            /\ IF r.slot = "armor"
                 THEN CardRender(stats, equipment, feats, skills, inventory,
                                 details, json, TRUE, FALSE, timers)
                 ELSE CardUnchanged
       ELSE /\ UNCHANGED info
            /\ CardUnchanged

\* variant of the failure path whose catch block does not call setError
FailWithoutError(r, err) ==
  /\ requests' = requests \ {r}
  /\ info' = IF r.live THEN [info EXCEPT ![r.slot].loading = FALSE] ELSE info
  /\ CardUnchanged

\* catch: setError(err.message); finally setLoading(false)
Fail(r, err) ==
  /\ requests' = requests \ {r}
  /\ info' = IF r.live
               THEN [info EXCEPT ![r.slot].error = err, ![r.slot].loading = FALSE]
               ELSE info
  /\ CardUnchanged

\* variant that tries the magic-items fallback whatever the name and the entry
AfterJsonAlwaysMagic(r, json) ==
  /\ requests' = (requests \ {r}) \cup {[r EXCEPT !.pc = "magic", !.json = json]}
  /\ UNCHANGED info
  /\ CardUnchanged

\* after json is known: the conditional magic-items fallback
AfterJson(r, json) ==
  IF LacksDesc(json) /\ looksMagic(r.name)
    THEN /\ requests' = (requests \ {r}) \cup {[r EXCEPT !.pc = "magic", !.json = json]}
         /\ UNCHANGED info
         /\ CardUnchanged
    ELSE Finish(r, json)

\* after the index list is known: match and fetch the matched entry
AfterIndex(r, results) ==
  LET match == FindMatch(results, r.name)
  IN  IF match # Null
        THEN /\ requests' = (requests \ {r}) \cup {[r EXCEPT !.pc = "alt", !.match = match]}
             /\ UNCHANGED info
             /\ CardUnchanged
        ELSE Fail(r, ErrPrimary)

\* the answer to GET equipment/<slug>
PrimaryResponse(r, outcome) ==
  /\ UNCHANGED <<edits, autoVars>>
  /\ ~savePending
  /\ r \in requests
  /\ r.pc = "primary"
  /\ CASE outcome = "ok" ->
            /\ r.slug \in DOMAIN EquipmentCatalogue
            /\ AfterJson(r, EquipmentCatalogue[r.slug])
       [] outcome = "notok" ->
            IF Has(endpointIndexCache, "equipment")
              THEN AfterIndex(r, endpointIndexCache["equipment"])
              ELSE /\ requests' = (requests \ {r}) \cup {[r EXCEPT !.pc = "index"]}
                   /\ UNCHANGED info
                   /\ CardUnchanged
       [] OTHER -> Fail(r, ErrNetwork)
  /\ UNCHANGED <<appVars, isEditing, endpointIndexCache>>

\* the answer to GET equipment (the index list)
IndexResponse(r, outcome) ==
  /\ UNCHANGED <<edits, autoVars>>
  /\ ~savePending
  /\ r \in requests
  /\ r.pc = "index"
  /\ CASE outcome = "ok" ->
            /\ endpointIndexCache' =
                 Spread(endpointIndexCache, [equipment |-> EquipmentIndex])
            /\ AfterIndex(r, EquipmentIndex)
       [] outcome = "notok" ->
            /\ UNCHANGED endpointIndexCache
            /\ Fail(r, ErrIndex)
       [] OTHER ->
            /\ UNCHANGED endpointIndexCache
            /\ Fail(r, ErrNetwork)
  /\ UNCHANGED <<appVars, isEditing>>

\* the answer to GET equipment/<match.index>
AltResponse(r, outcome) ==
  /\ UNCHANGED <<edits, autoVars>>
  /\ ~savePending
  /\ r \in requests
  /\ r.pc = "alt"
  /\ CASE outcome = "ok" ->
            /\ r.match.index \in DOMAIN EquipmentCatalogue
            /\ AfterJson(r, EquipmentCatalogue[r.match.index])
       [] outcome = "notok" -> Fail(r, ErrFallback)
       [] OTHER -> Fail(r, ErrNetwork)
  /\ UNCHANGED <<appVars, isEditing, endpointIndexCache>>

\* the answer to GET magic-items/<slug>
MagicResponse(r, outcome) ==
  /\ UNCHANGED <<edits, autoVars>>
  /\ ~savePending
  /\ r \in requests
  /\ r.pc = "magic"
  /\ CASE outcome = "ok" ->
            /\ r.slug \in DOMAIN MagicCatalogue
            /\ Finish(r, IF Has(MagicCatalogue[r.slug], "desc")
                           THEN MagicCatalogue[r.slug]
                           ELSE r.json)
       [] outcome = "notok" -> Finish(r, r.json)
       [] OTHER -> Fail(r, ErrNetwork)
  /\ UNCHANGED <<appVars, isEditing, endpointIndexCache>>

\* ------------------------------------------------------------------------
\* Specifications
\* ------------------------------------------------------------------------
NoCardState ==
  /\ stats = EmptyObj
  /\ equipment = EmptyObj
  /\ feats = <<>>
  /\ skills = <<>>
  /\ inventory = <<>>
  /\ details = EmptyObj
  /\ isEditing = FALSE
  /\ ac = 0
  /\ timers = {}
  /\ sinceEdit = 0
  /\ requests = {}
  /\ info = NoInfo
  /\ edits = 0
  /\ itemDetails = EmptyObj
  /\ itemRuns = <<>>
  /\ fetched = {}
  /\ AutoInputFresh

\* Spec: the App from an empty local storage (the creation form is shown and
\* the first save effect is due), with the card edits that reach the list:
\* a counter and a list entry.
Init ==
  /\ storage = NoItem
  /\ characters = LoadCharacters(storage)
  /\ activeTab = "create"
  /\ savePending = TRUE
  /\ NoCardState
  /\ endpointIndexCache = EmptyObj

Clock ==
  \/ Tick
  \/ \E t \in timers : TimerFire(t)

Next ==
  \/ \E n \in NameInputs, race \in RaceInputs : addCharacter(NewChar(n, race))
  \/ \E tab \in NameInputs \cup {"create"} : ClickTab(tab)
  \/ deleteCharacter
  \/ SaveEffect
  \/ Clock
  \/ \E delta \in {-1, 1} : adjustStat("level", delta)
  \/ \E val \in ListInputs : handleAdd("feats", val)
  \/ \E val \in ListInputs : handleRemove("feats", val)

Spec == Init /\ [][Next]_vars

\* the state Spec is in after "ann" was submitted and saved: her card is shown
AnnCreated ==
  LET ann == NewChar("ann", "elf")
      de == [k \in DetailKeys |-> TextOr(ann, k, IF k = "familiar" THEN "None" ELSE "")]
      nAc == ComputeAC(ann.stats, EmptyObj, Null)
  IN  /\ characters = <<ann>>
      /\ storage = Stringify(<<ann>>)
      /\ activeTab = "ann"
      /\ savePending = FALSE
      /\ stats = ann.stats
      /\ equipment = EmptyObj
      /\ feats = <<>>
      /\ skills = <<>>
      /\ inventory = <<>>
      /\ details = de
      /\ isEditing = FALSE
      /\ ac = nAc
      /\ timers = {NewTimer("ann", Snapshot(ann.stats, nAc, EmptyObj, <<>>, <<>>, <<>>, de))}
      /\ sinceEdit = 0
      /\ requests = {}
      /\ info = NoInfo
      /\ endpointIndexCache = EmptyObj
      /\ edits = 0
      /\ itemDetails = EmptyObj
      /\ itemRuns = <<>>
      /\ fetched = {}
      /\ AutoInputFresh

\* SpecCard: one character's card with every kind of edit, the sync timer, the
\* save effect and the tab switch; the equipment edits empty a slot.
NextCard ==
  \/ \E tab \in {"ann", "create"} : ClickTab(tab)
  \/ SaveEffect
  \/ Clock
  \/ \E stat \in {"dexterity", "currentHP"}, delta \in {-1, 1} : adjustStat(stat, delta)
  \/ \E slot \in Slots : handleEquipChange(slot, EmptyStr)
  \/ \E which \in Lists, val \in ListInputs : handleAdd(which, val)
  \/ \E which \in Lists, val \in ListInputs : handleRemove(which, val)
  \/ ToggleEditing
  \/ \E value \in DetailInputs : handleDetailChange("race", value)

SpecCard == AnnCreated /\ [][NextCard]_vars

\* SpecLookup: one character's card within one sync delay of its creation:
\* the edits the armor class depends on, list edits, and the lookups of the
\* equipment slots answered in every way.
Responses ==
  \/ \E r \in requests, o \in Outcomes : PrimaryResponse(r, o)
  \/ \E r \in requests, o \in Outcomes : IndexResponse(r, o)
  \/ \E r \in requests, o \in Outcomes : AltResponse(r, o)
  \/ \E r \in requests, o \in Outcomes : MagicResponse(r, o)

NextLookup ==
  \/ \E delta \in {-1, 1} : adjustStat("dexterity", delta)
  \/ \E value \in ArmorInputs : handleEquipChange("armor", value)
  \/ \E value \in HandInputs : handleEquipChange("offHand", value)
  \/ \E val \in ListInputs : handleAdd("inventory", val)
  \/ \E val \in ListInputs : handleRemove("inventory", val)
  \/ Responses

SpecLookup == AnnCreated /\ [][NextLookup]_vars

\* SpecSync: one character's card with the edits the armor class depends on,
\* the armor lookup answered in every way, the sync timer and the save effect.
NextSync ==
  \/ SaveEffect
  \/ Clock
  \/ \E delta \in {-1, 1} : adjustStat("dexterity", delta)
  \/ \E value \in {EmptyStr, RingMailStr} : handleEquipChange("armor", value)
  \/ Responses

SpecSync == AnnCreated /\ [][NextSync]_vars

\* SpecAC: the armor class as a function of its inputs.  A stored character
\* with any dexterity score and a named armor is loaded and the card is
\* mounted; the armor lookup is then answered with any record of ArmorRecords,
\* and the AC effect runs on it.
ArmorClasses ==
  { [base |-> b, dex_bonus |-> d] : b \in {11, 14}, d \in BOOLEAN }
    \cup { [base |-> b, dex_bonus |-> d, max_bonus |-> m] :
             b \in {11, 14}, d \in BOOLEAN, m \in {0, 2} }
ArmorRecords ==
  { [index |-> scaleMailSlug, name |-> ScaleMailStr,
     equipment_category |-> "Armor", desc |-> NoDesc, armor_class |-> a] :
      a \in ArmorClasses }
    \cup { [index |-> scaleMailSlug, name |-> ScaleMailStr,
            equipment_category |-> "Adventuring Gear", desc |-> NoDesc] }

StoredArmored(dex) ==
  LET new == NewChar("ann", "elf")
  IN  [new EXCEPT !.stats = Spread(new.stats, [dexterity |-> dex]),
                  !.equipment = [armor |-> ScaleMailStr]]

InitAC ==
  \E dex \in 0..MaxDex :
    LET c == StoredArmored(dex)
        de == [k \in DetailKeys |-> TextOr(c, k, IF k = "familiar" THEN "None" ELSE "")]
        nAc == ComputeAC(c.stats, c.equipment, Null)
    IN  /\ storage = Stringify(<<c>>)
        /\ characters = LoadCharacters(storage)
        /\ activeTab = "ann"
        /\ savePending = FALSE
        /\ stats = c.stats
        /\ equipment = c.equipment
        /\ feats = <<>>
        /\ skills = <<>>
        /\ inventory = <<>>
        /\ details = de
        /\ isEditing = FALSE
        /\ ac = nAc
        /\ timers = {NewTimer("ann", Snapshot(c.stats, nAc, c.equipment, <<>>, <<>>, <<>>, de))}
        /\ sinceEdit = 0
        /\ requests = StartAll({}, c.equipment, Slots)
        /\ info = [s \in Slots |->
                     [FreshInfo EXCEPT !.loading = (Equipped(c.equipment, s) # EmptyStr)]]
        /\ endpointIndexCache = EmptyObj
        /\ edits = 0
        /\ itemDetails = EmptyObj
        /\ itemRuns = <<>>
        /\ fetched = {}
        /\ AutoInputFresh

\* the OK answer to GET equipment/<slug> with any armor record as its body
ArmorDataArrives(r, json) ==
  /\ UNCHANGED <<edits, autoVars>>
  /\ ~savePending
  /\ r \in requests
  /\ r.pc = "primary"
  /\ AfterJson(r, json)
  /\ UNCHANGED <<appVars, isEditing, endpointIndexCache>>

NextAC == \E r \in requests, json \in ArmorRecords : ArmorDataArrives(r, json)

SpecAC == InitAC /\ [][NextAC]_vars

\* ------------------------------------------------------------------------
\* Properties
\* ------------------------------------------------------------------------
\* the values the card shows now, as the object a sync would send
LocalSnapshot == Snapshot(stats, ac, equipment, feats, skills, inventory, details)

\* record c holds every edited value of payload: all its fields but the
\* derived stats.ac and the picture
Reflects(c, payload) ==
  /\ \A k \in DOMAIN payload \ {"stats", "picture"} : Has(c, k) /\ c[k] = payload[k]
  /\ \A k \in DOMAIN payload.stats \ {"ac"} :
       Has(c.stats, k) /\ c.stats[k] = payload.stats[k]

\* C1 (as claimed): no two records of the characters list have the same name.
NamesUnique ==
  \A i, j \in DOMAIN characters :
    i # j => characters[i].name # characters[j].name

\* C2 (as claimed): an edit made on a card reaches the character's record
\* whatever the user does next.  Its safety core: when the card leaves the
\* screen by a tab switch, the record of its character holds the values the
\* card showed, so no edit is dropped with the card.
EditsSurviveTabSwitch ==
  [][(CardShown /\ activeTab' # activeTab /\ HasCharacter(characters', activeTab))
       => Reflects(FindCharacter(characters', activeTab), LocalSnapshot)]_vars

\* C3: whenever no save effect is pending, the stored "characters" entry is
\* the serialization of the in-memory list.
StorageMirrorsList == ~savePending => storage = Stringify(characters)

\* C3 witness: an added and then updated record has been saved
SavedAfterUpdate ==
  /\ ~savePending
  /\ characters # <<>>
  /\ Has(characters[1].stats, "ac")
  /\ characters[1].feats # <<>>
  /\ storage = Stringify(characters)

CurrentArmorData ==
  IF Equipped(equipment, "armor") = EmptyStr \/ info["armor"].error # Null
    THEN Null
    ELSE info["armor"].data
NoHands ==
  /\ Equipped(equipment, "mainHand") = EmptyStr
  /\ Equipped(equipment, "offHand") = EmptyStr

\* C5 (as claimed): once every lookup has settled, the displayed armor class
\* is the one derived from the current dexterity and the data of the armor
\* equipped now; an armor slot that is empty or whose lookup failed counts as
\* no armor.  (Stated for cards with both hands empty.)
AcFollowsEquipment ==
  (CardShown /\ requests = {} /\ NoHands)
    => ac = ArmorDexAC(stats, CurrentArmorData)

\* the armor and dexterity part of the armor class as C6 and C7 state it
ClaimedModifier(dex) == (dex - 10) \div 2
ArmoredData(data) == data # Null /\ Has(data, "armor_class")
UncappedData(data) == ~ArmoredData(data) \/ ~Has(data.armor_class, "max_bonus")
ClaimedArmorDex(dex, data) ==
  IF ~ArmoredData(data) THEN 10 + ClaimedModifier(dex)
  ELSE IF data.armor_class.dex_bonus
    THEN data.armor_class.base + ClaimedModifier(dex)
    ELSE data.armor_class.base

\* C6 (as claimed): with no armor_class the armor and dexterity part is
\* 10 + floor((dex - 10) / 2); otherwise it is the armor's base, plus the
\* dexterity modifier only when dex_bonus is set.  (Stated for armor without
\* a max_bonus; the capped case is C7's.)
ArmorDexPartAsClaimed ==
  (CardShown /\ requests = {} /\ NoHands /\ UncappedData(info["armor"].data))
    => ac = ClaimedArmorDex(stats.dexterity, info["armor"].data)

\* C7 (as claimed): with dex_bonus set and a max_bonus given, the dexterity
\* modifier adds min(modifier, max_bonus) to the armor's base.  (Stated for
\* dexterity 1..MaxDex; dexterity 0 is the case C6 fails on.)
DexBonusCapped ==
  (/\ CardShown /\ requests = {} /\ NoHands
   /\ ArmoredData(info["armor"].data)
   /\ ~UncappedData(info["armor"].data)
   /\ info["armor"].data.armor_class.dex_bonus
   /\ stats.dexterity >= 1)
    => ac - info["armor"].data.armor_class.base
         = Min(ClaimedModifier(stats.dexterity),
               info["armor"].data.armor_class.max_bonus)

\* a step in which the lookup r ends in failure
LookupFails(r) ==
  \/ PrimaryResponse(r, "throw")
  \/ /\ PrimaryResponse(r, "notok")
     /\ Has(endpointIndexCache, "equipment")
     /\ FindMatch(endpointIndexCache["equipment"], r.name) = Null
  \/ IndexResponse(r, "notok")
  \/ IndexResponse(r, "throw")
  \/ IndexResponse(r, "ok") /\ FindMatch(EquipmentIndex, r.name) = Null
  \/ AltResponse(r, "notok")
  \/ AltResponse(r, "throw")
  \/ MagicResponse(r, "throw")

\* C8: a lookup that ends in failure leaves its hook with loading false and
\* a non-null error, the tooltip then renders the error branch and not item
\* details, and the step changes none of stats, equipment, feats, skills and
\* inventory.
FailureEndsInError ==
  [][\A r \in requests :
       (r.live /\ LookupFails(r)) =>
         /\ ~info'[r.slot].loading
         /\ info'[r.slot].error # Null
         /\ getTooltipContent(info'[r.slot].loading, info'[r.slot].data,
                              info'[r.slot].error) = "Error"
         /\ UNCHANGED <<stats, equipment, feats, skills, inventory>>]_vars

\* C8 witness: the lookup of a named slot has failed and its tooltip shows
\* the error while the slot still holds the name the user typed
LookupFailed ==
  \E s \in Slots :
    /\ Equipped(equipment, s) # EmptyStr
    /\ info[s].error # Null
    /\ ~info[s].loading
    /\ getTooltipContent(info[s].loading, info[s].data, info[s].error) = "Error"
    /\ \A r \in requests : r.slot # s

\* the user can act on the card: it is shown, the effects of the last render
\* have run and the edits explored are not used up
UserCanAct == CardShown /\ ~savePending /\ edits < MaxEdits

\* C9: whatever the state of the lookups, each edit handler can run and
\* leaves the local value its setter computes.  (The guards are the bounds of
\* the edits explored.)
EditsNeverBlocked ==
  UserCanAct =>
    /\ \A delta \in {-1, 1} :
         AdjustedStats(stats, "dexterity", delta).dexterity <= MaxStat
           => ENABLED (/\ adjustStat("dexterity", delta)
                       /\ stats' = AdjustedStats(stats, "dexterity", delta))
    /\ \A value \in ArmorInputs :
         (value \in {EmptyStr, Equipped(equipment, "armor")} \/ FreeIds(requests) # {})
           => ENABLED (/\ handleEquipChange("armor", value)
                       /\ Equipped(equipment', "armor") = value)
    /\ \A val \in ListInputs :
         Len(Added(inventory, val)) <= MaxList
           => ENABLED (/\ handleAdd("inventory", val)
                       /\ inventory' = Added(inventory, val))
    /\ \A val \in ListInputs :
         val \in RangeOf(inventory)
           => ENABLED (/\ handleRemove("inventory", val)
                       /\ inventory' = Removed(inventory, val))

\* C9 witness: the off-hand name was typed while the armor lookup was in
\* flight (or the other way round): both lookups are running
EditedDuringLookups ==
  /\ CardShown
  /\ info["armor"].loading
  /\ info["offHand"].loading
  /\ Cardinality(requests) = 2
  /\ Equipped(equipment, "armor") # EmptyStr
  /\ Equipped(equipment, "offHand") # EmptyStr

\* C10 (as claimed): the records do not depend on what the API answers, so
\* the armor class stored in a record is the one its own stats and equipment
\* give with no lookup data at all.
RecordsIgnoreLookups ==
  \A i \in DOMAIN characters :
    (Has(characters[i].stats, "ac") /\ Has(characters[i], "equipment"))
      => characters[i].stats.ac
           = ComputeAC(characters[i].stats, characters[i].equipment, Null)

\* C10 (amended): an answer of the API writes to no record and not to local
\* storage, and of the card's state it changes the displayed armor class
\* only: stats, equipment, feats, skills, inventory and details are the same
\* before and after every response step.
LookupsReachOnlyAc ==
  [][Responses => UNCHANGED <<characters, storage, stats, equipment, feats,
                              skills, inventory, details>>]_vars

\* C10 witness: the armor data of a settled lookup has changed the displayed
\* armor class, and the sync and the save have carried it into the record
LookupAcSynced ==
  /\ CardShown
  /\ ~savePending
  /\ requests = {}
  /\ info["armor"].data # Null
  /\ ac # ComputeAC(stats, equipment, Null)
  /\ Has(characters[1].stats, "ac")
  /\ characters[1].stats.ac = ac
  /\ storage = Stringify(characters)

\* ------------------------------------------------------------------------
\* The list under updates, tab clicks and deletions
\* ------------------------------------------------------------------------
\* a step in which the timeout callback of the displayed card called onUpdate
SyncStep == ~savePending /\ savePending' /\ activeTab' = activeTab

\* the position of the record the displayed card was mounted on
ShownIndex ==
  CHOOSE i \in DOMAIN characters :
    /\ characters[i].name = activeTab
    /\ \A j \in 1..(i - 1) : characters[j].name # activeTab

NamesOf(list) == [i \in DOMAIN list |-> list[i].name]

\* C11: an update issued by a card changes the record that card displays and
\* no other: every other record is the same before and after, and the list
\* keeps its length, its order and its names.
UpdateChangesOneRecord ==
  [][SyncStep =>
       /\ NamesOf(characters') = NamesOf(characters)
       /\ \A i \in DOMAIN characters :
            i # ShownIndex => characters'[i] = characters[i]]_vars

\* ------------------------------------------------------------------------
\* The sync after the last edit
\* ------------------------------------------------------------------------
\* SpecSyncFair: SpecSync in which a started timer runs down and fires and a
\* due save effect runs, as the browser's timers and React's effects do.  The
\* user's edits are finitely many and the tab is never left.
SpecSyncFair == SpecSync /\ WF_vars(Clock) /\ WF_vars(SaveEffect)

\* C12: the syncing comes to rest: from some point on no sync timer is
\* pending, so no further onUpdate call and no further storage write follow.
SyncsCease == <>[](timers = {})

\* ------------------------------------------------------------------------
\* Lookups that overlap
\* ------------------------------------------------------------------------
\* a run of fetchData of a mounted hook, started for the name the slot holds now
LatestInFlight(r) == r.live /\ r.name = Equipped(equipment, r.slot)

\* while the lookup of the name a slot holds now is in flight, the slot is loading
LoadingWhileLatestRuns ==
  \A r \in requests : LatestInFlight(r) => info[r.slot].loading

\* once every lookup has completed, a slot that shows data without an error
\* shows the entry of the name it holds now
SettledDataIsLatest ==
  requests = {} =>
    \A slot \in Slots :
      (/\ Equipped(equipment, slot) # EmptyStr
       /\ info[slot].error = Null
       /\ info[slot].data # Null)
        => info[slot].data.index = Slug(Equipped(equipment, slot))

\* C13: when the name of a slot changes while an earlier lookup is in flight,
\* the data shown after all lookups completed are those of the latest name,
\* whatever the order of arrival, and loading is never false while the lookup
\* of the latest name is in flight.
LatestLookupWins == LoadingWhileLatestRuns /\ SettledDataIsLatest

\* ------------------------------------------------------------------------
\* The armor class and the hands
\* ------------------------------------------------------------------------
\* SpecHands: one character's card with edits of both hands, of the armor and
\* of dexterity, the lookups answered in every way.
NextHands ==
  \/ \E value \in HandInputs : handleEquipChange("mainHand", value)
  \/ \E value \in HandInputs : handleEquipChange("offHand", value)
  \/ \E value \in {RingMailStr} : handleEquipChange("armor", value)
  \/ \E delta \in {-1, 1} : adjustStat("dexterity", delta)
  \/ Responses

SpecHands == AnnCreated /\ [][NextHands]_vars

\* C14: the displayed armor class is determined by dexterity, the armor data
\* and the off-hand item alone: it is the value these three give, whatever
\* the main hand holds.
AcIgnoresMainHand ==
  CardShown =>
    ac = ArmorDexAC(stats, info["armor"].data)
           + HandBonus(Equipped(equipment, "offHand"))

\* ------------------------------------------------------------------------
\* fetchItems: the details of the inventory items
\* ------------------------------------------------------------------------
\* the body of an OK answer to GET magic-items/<slug of the name>
ItemJson(name) == [index |-> Slug(name), name |-> name]

\* One fetch of run k of fetchItems answers.  An OK answer is stored in the
\* run's own details object; a rejected fetch rejects the run, which has no
\* catch; after the last name the run calls setItemDetails(details).
ItemResponse(k, outcome) ==
  LET run == itemRuns[k]
      name == run.inv[run.i]
      nDetails == IF outcome = "ok"
                    THEN Spread(run.details, [n \in {name} |-> ItemJson(name)])
                    ELSE run.details
      rest == [j \in 1..(Len(itemRuns) - 1) |->
                 IF j < k THEN itemRuns[j] ELSE itemRuns[j + 1]]
  IN  /\ UNCHANGED <<edits, autoVars>>
      /\ ~savePending
      /\ k \in DOMAIN itemRuns
      /\ fetched' = IF run.latest /\ outcome = "ok"
                      THEN fetched \cup {name}
                      ELSE fetched
      /\ IF outcome = "throw"
           THEN itemRuns' = rest /\ UNCHANGED itemDetails
         ELSE IF run.i = Len(run.inv)
           THEN itemRuns' = rest /\ itemDetails' = nDetails
         ELSE /\ itemRuns' = [itemRuns EXCEPT ![k] =
                                [run EXCEPT !.i = run.i + 1, !.details = nDetails]]
              /\ UNCHANGED itemDetails
      /\ UNCHANGED <<appVars, stats, equipment, ac, feats, skills, inventory,
                     details, isEditing, timers, sinceEdit, hookVars>>

\* SpecItems: a stored character with three inventory items is loaded and the
\* card is mounted; items are removed and the fetches of every run answer in
\* every way and in every order.
InitItems ==
  LET c == [NewChar("ann", "elf") EXCEPT
              !.inventory = << <<"x">>, <<"y">>, <<"z">> >>]
      de == [k \in DetailKeys |-> TextOr(c, k, IF k = "familiar" THEN "None" ELSE "")]
      nAc == ComputeAC(c.stats, EmptyObj, Null)
  IN  /\ storage = Stringify(<<c>>)
      /\ characters = LoadCharacters(storage)
      /\ activeTab = "ann"
      /\ savePending = FALSE
      /\ stats = c.stats
      /\ equipment = EmptyObj
      /\ feats = <<>>
      /\ skills = <<>>
      /\ inventory = c.inventory
      /\ details = de
      /\ isEditing = FALSE
      /\ ac = nAc
      /\ timers = {NewTimer("ann", Snapshot(c.stats, nAc, EmptyObj, <<>>, <<>>,
                                            c.inventory, de))}
      /\ sinceEdit = 0
      /\ requests = {}
      /\ info = NoInfo
      /\ endpointIndexCache = EmptyObj
      /\ edits = 0
      /\ itemDetails = EmptyObj
      /\ itemRuns = <<[inv |-> c.inventory, i |-> 1, details |-> EmptyObj,
                       latest |-> TRUE]>>
      /\ fetched = {}
      /\ AutoInputFresh

NextItems ==
  \/ \E val \in {<<"x">>, <<"y">>, <<"z">>} : handleRemove("inventory", val)
  \/ \E k \in DOMAIN itemRuns, o \in Outcomes : ItemResponse(k, o)

SpecItems == InitItems /\ [][NextItems]_vars

\* C15: once every inventory lookup has settled, itemDetails has an entry
\* for exactly the names of the current inventory whose lookup succeeded: a
\* lookup that fails or throws costs no other item its entry, and a run of an
\* earlier inventory leaves nothing behind.
ItemDetailsOfCurrentInventory ==
  (CardShown /\ itemRuns = <<>>) => DOMAIN itemDetails = fetched

\* ------------------------------------------------------------------------
\* Tabs
\* ------------------------------------------------------------------------
\* C16: the active tab is always "create" or the name of a record of the
\* list, so the tab content is the form or a card and never the 'Select a
\* character tab' fallback.
ActiveTabIsKnown == activeTab = "create" \/ HasCharacter(characters, activeTab)

\* C16 witness: a record was deleted from a list of two (the save is still
\* due) and the form is shown, the other record's tab remaining
TabResetByDelete ==
  /\ savePending
  /\ activeTab = "create"
  /\ Len(characters) = 1
  /\ storage # NoItem
  /\ Len(LoadCharacters(storage)) = 2

\* SpecTabs: the App from an empty local storage with the form, the tabs,
\* the Delete button, a counter of the card and its sync; the form is
\* submitted with any text as the name, the word "create" included.
NextTabs ==
  \/ \E n \in {"ann", "create"}, race \in RaceInputs : addCharacter(NewChar(n, race))
  \/ \E tab \in {"ann", "create"} : ClickTab(tab)
  \/ deleteCharacter
  \/ SaveEffect
  \/ Clock
  \/ \E delta \in {-1, 1} : adjustStat("level", delta)

SpecTabs == Init /\ [][NextTabs]_vars

\* C17: for every record of the list, the tab content after a click on its
\* tab (the active tab is then its name) is the card of that very record.
TabShowsOwnRecord ==
  \A i \in DOMAIN characters :
    /\ CardShownIn(characters, characters[i].name)
    /\ \A j \in 1..(i - 1) : characters[j].name # characters[i].name

\* ------------------------------------------------------------------------
\* Delete
\* ------------------------------------------------------------------------
\* a step in which the Delete button of the displayed card was clicked
DeleteStep ==
  ~savePending /\ savePending' /\ activeTab # "create" /\ activeTab' = "create"

\* the list without its i-th record
RemoveAt(list, i) ==
  [j \in 1..(Len(list) - 1) |-> IF j < i THEN list[j] ELSE list[j + 1]]

\* C18: Delete removes the record of the displayed card and only that one,
\* the other records keeping their order; the active tab becomes "create";
\* and no sync timer of the removed card is left to write to the list.
DeleteRemovesOneRecord ==
  [][DeleteStep =>
       /\ characters' = RemoveAt(characters, ShownIndex)
       /\ activeTab' = "create"
       /\ timers' = {}]_vars

\* ------------------------------------------------------------------------
\* The index list cache
\* ------------------------------------------------------------------------
\* C19: the index list of an endpoint is fetched at most once: once a fetch
\* of it has succeeded and the list is cached, no other fetch of the list
\* has been issued, whatever lookups failed their primary request together.
IndexFetchedOnce ==
  Has(endpointIndexCache, "equipment") => \A r \in requests : r.pc # "index"

\* ------------------------------------------------------------------------
\* useDnDAutocomplete (useDnDAPI.jsx) behind the inventory AutoInput
\* ------------------------------------------------------------------------
\* the index list GET magic-items answers with
MagicItemsIndex ==
  << [index |-> ringMailSlug, name |-> RingMailStr],
     [index |-> <<"r","o","b","e">>, name |-> RobeStr] >>

\* !query || query.trim().length < 2
QueryTooShort(q) == q = EmptyStr \/ Len(trim(q)) < 2

\* json.results.filter(name.toLowerCase().includes(query.toLowerCase()))
\* .slice(0, 20)
Filtered(results, q) ==
  LET hits == SelectSeq(results,
                LAMBDA item : includes(toLowerCase(item.name), toLowerCase(q)))
  IN  SubSeq(hits, 1, Min(20, Len(hits)))

\* typing into the inventory AutoInput: setQuery(val), onChange is a no-op;
\* then the hook's effect for the new query
handleQueryInput(val) ==
  /\ ~savePending
  /\ CardShown
  /\ edits < MaxEdits
  /\ edits' = edits + 1
  /\ val # query
  /\ query' = val
  /\ IF QueryTooShort(val)
       THEN /\ suggestions' = <<>>
            /\ UNCHANGED <<loading, suggestRuns>>
       ELSE /\ loading' = TRUE
            /\ suggestRuns' = Append(suggestRuns, [query |-> val])
            /\ UNCHANGED suggestions
  /\ UNCHANGED <<appVars, cardVars, timers, sinceEdit, hookVars, itemVars>>

\* the answer to the GET of run k of fetchSuggestions: a list, a body without
\* results, or a rejection; finally setLoading(false)
SuggestResponse(k, outcome) ==
  LET run == suggestRuns[k]
  IN  /\ UNCHANGED edits
      /\ ~savePending
      /\ k \in DOMAIN suggestRuns
      /\ suggestions' = IF outcome = "ok"
                          THEN Filtered(MagicItemsIndex, run.query)
                          ELSE <<>>
      /\ loading' = FALSE
      /\ suggestRuns' = [j \in 1..(Len(suggestRuns) - 1) |->
                           IF j < k THEN suggestRuns[j] ELSE suggestRuns[j + 1]]
      /\ UNCHANGED <<query, appVars, cardVars, timers, sinceEdit, hookVars, itemVars>>

\* SpecSuggest: the inventory AutoInput of one character's card: texts are
\* typed and the requests answer in every way and in every order, while the
\* card's sync timer and the save effect run.
NextSuggest ==
  \/ \E val \in {EmptyStr, <<"r">>, <<" ", "r">>, <<"r", "i">>, <<"r", "o">>} :
       handleQueryInput(val)
  \/ \E k \in DOMAIN suggestRuns, o \in Outcomes : SuggestResponse(k, o)
  \/ Clock
  \/ SaveEffect

SpecSuggest == AnnCreated /\ [][NextSuggest]_vars

\* C20: whenever the query is empty or shorter than two characters after
\* trimming, the suggestion list is empty, also after the answer to an
\* earlier, longer query has arrived; and when the query is long enough, the
\* list shown after all requests have settled is the index list filtered by
\* the current query (or empty, when the request failed).
SuggestionsFollowQuery ==
  /\ QueryTooShort(query) => suggestions = <<>>
  /\ (~QueryTooShort(query) /\ suggestRuns = <<>>)
       => suggestions \in {Filtered(MagicItemsIndex, query), <<>>}

\* ------------------------------------------------------------------------
\* useDnDAutocomplete (useDnDAutocomplete.jsx), an endpoint other than feats
\* ------------------------------------------------------------------------
\* typing into an AutoInput backed by this hook: the cleanup of the previous
\* effect sets isCancelled of its run, then the effect runs for the new
\* query: an empty query clears the suggestions and returns, any other one
\* calls setLoading(true) and starts fetchAndFilter
fetchAndFilter(val) ==
  LET cancelled == [k \in DOMAIN suggestRuns |->
                      [suggestRuns[k] EXCEPT !.isCancelled = TRUE]]
  IN  /\ ~savePending
      /\ CardShown
      /\ edits < MaxEdits
      /\ edits' = edits + 1
      /\ val # query
      /\ query' = val
      /\ IF val = EmptyStr
           THEN /\ suggestions' = <<>>
                /\ suggestRuns' = cancelled
                /\ UNCHANGED loading
           ELSE /\ loading' = TRUE
                /\ suggestRuns' = Append(cancelled,
                                         [query |-> val, isCancelled |-> FALSE])
                /\ UNCHANGED suggestions
      /\ UNCHANGED <<appVars, cardVars, timers, sinceEdit, hookVars, itemVars>>

\* the answer to the GET of run k of fetchAndFilter: OK with results, not OK
\* (throws) or a rejection; every setter is guarded by !isCancelled
fetchAndFilterResponse(k, outcome) ==
  LET run == suggestRuns[k]
  IN  /\ UNCHANGED edits
      /\ ~savePending
      /\ k \in DOMAIN suggestRuns
      /\ IF run.isCancelled
           THEN UNCHANGED <<suggestions, loading>>
           ELSE /\ suggestions' =
                     IF outcome = "ok"
                       THEN SelectSeq(MagicItemsIndex,
                              LAMBDA item : includes(toLowerCase(item.name),
                                                     toLowerCase(run.query)))
                       ELSE <<>>
                /\ loading' = FALSE
      /\ suggestRuns' = [j \in 1..(Len(suggestRuns) - 1) |->
                           IF j < k THEN suggestRuns[j] ELSE suggestRuns[j + 1]]
      /\ UNCHANGED <<query, appVars, cardVars, timers, sinceEdit, hookVars, itemVars>>

\* SpecAutocomplete: an AutoInput backed by this hook on one character's
\* card: texts are typed and the requests answer in every way and in every
\* order, while the card's sync timer and the save effect run.
NextAutocomplete ==
  \/ \E val \in {EmptyStr, <<"r">>, <<"r", "i">>, <<"r", "o">>} : fetchAndFilter(val)
  \/ \E k \in DOMAIN suggestRuns, o \in Outcomes : fetchAndFilterResponse(k, o)
  \/ Clock
  \/ SaveEffect

SpecAutocomplete == AnnCreated /\ [][NextAutocomplete]_vars

\* C21: loading is true only while a request for the current query is in
\* flight: once all requests have completed or been cancelled and the effect
\* of the current query has run, loading is false.
LoadingOnlyWhileFetching ==
  loading => \E k \in DOMAIN suggestRuns :
               ~suggestRuns[k].isCancelled /\ suggestRuns[k].query = query

\* ------------------------------------------------------------------------
\* C22: after any sequence of adjustStat calls every stat of the card (the
\* six ability scores, level, currentHP, maxHP) is an integer 0 or greater,
\* and one adjustStat(stat, delta) call changes no stat other than the named
\* one.  (While the same card stays shown, adjustStat is the only step that
\* changes the card's stats.)
\* ------------------------------------------------------------------------
StatsNonNegative ==
  \A k \in DOMAIN stats \ {"ac"} : stats[k] \in Nat

AdjustChangesOneStat ==
  (activeTab' = activeTab /\ stats' # stats) =>
    \E k \in {"strength", "dexterity", "constitution", "intelligence",
              "wisdom", "charisma", "level", "currentHP", "maxHP"} :
      /\ DOMAIN stats' = DOMAIN stats \cup {k}
      /\ \A j \in DOMAIN stats \ {k} : stats'[j] = stats[j]

StatsStayCounters == [](CardShown => StatsNonNegative) /\ [][AdjustChangesOneStat]_vars

\* currentHP lowered on a card that had none stored: it is clamped at 0
HpClampedAtZero == CardShown /\ Has(stats, "currentHP") /\ stats.currentHP = 0

\* ------------------------------------------------------------------------
\* The level and HP counters of the card
\* ------------------------------------------------------------------------
\* {stats.level || 1}, {stats.currentHP || 0}, {stats.maxHP || 10}
DisplayedStat(st, stat) ==
  GetOr(st, stat, IF stat = "level" THEN 1 ELSE IF stat = "maxHP" THEN 10 ELSE 0)

\* SpecCounters: the three counters of a newly created character's card are
\* pressed while the card's sync timer and the save effect run.
NextCounters ==
  \/ \E stat \in {"level", "currentHP", "maxHP"}, delta \in {-1, 1} : adjustStat(stat, delta)
  \/ Clock
  \/ SaveEffect

SpecCounters == AnnCreated /\ [][NextCounters]_vars

\* C23: for the level, current-HP and max-HP counters, pressing '+' raises
\* the value displayed on the card by exactly 1 and pressing '-' lowers it
\* by exactly 1 unless it is 0, from every reachable state, including a
\* newly created character whose HP values are not yet stored.  (Every press
\* is an edit; it moves one counter's displayed value one up, one down, or
\* leaves it at 0, and no other counter's displayed value.)
CountersStepByOne ==
  [][edits' # edits =>
       \E stat \in {"level", "currentHP", "maxHP"} :
         LET shown == DisplayedStat(stats, stat)
             after == DisplayedStat(stats', stat)
         IN  /\ \/ after = shown + 1
                \/ after = shown - 1
                \/ shown = 0 /\ after = 0
             /\ \A other \in {"level", "currentHP", "maxHP"} \ {stat} :
                  DisplayedStat(stats', other) = DisplayedStat(stats, other)]_vars

\* ------------------------------------------------------------------------
\* The feats, skills and inventory lists
\* ------------------------------------------------------------------------
\* SpecLists: the card of a character whose feats list was built by earlier
\* handleAdd calls (any list of distinct trimmed entries, the empty list of a
\* newly created character included); entries are added to and removed from
\* the three lists, with and without surrounding blanks.
InitLists ==
  \E fe \in UNION {[1..n -> {<<"a">>, <<"b">>, <<"c">>}] : n \in 0..MaxList} :
    LET c == [NewChar("ann", "elf") EXCEPT !.feats = fe]
        de == [k \in DetailKeys |-> TextOr(c, k, IF k = "familiar" THEN "None" ELSE "")]
        nAc == ComputeAC(c.stats, EmptyObj, Null)
    IN  /\ \A i, j \in DOMAIN fe : fe[i] = fe[j] => i = j
        /\ storage = Stringify(<<c>>)
        /\ characters = LoadCharacters(storage)
        /\ activeTab = "ann"
        /\ savePending = FALSE
        /\ stats = c.stats
        /\ equipment = EmptyObj
        /\ feats = fe
        /\ skills = <<>>
        /\ inventory = <<>>
        /\ details = de
        /\ isEditing = FALSE
        /\ ac = nAc
        /\ timers = {NewTimer("ann", Snapshot(c.stats, nAc, EmptyObj, fe, <<>>, <<>>, de))}
        /\ sinceEdit = 0
        /\ requests = {}
        /\ info = NoInfo
        /\ endpointIndexCache = EmptyObj
        /\ edits = 0
        /\ itemDetails = EmptyObj
        /\ itemRuns = <<>>
        /\ fetched = {}
        /\ AutoInputFresh

NextLists ==
  \/ \E which \in Lists, val \in {<<"a">>, <<" ", "b">>, <<"d", " ">>, <<" ">>, EmptyStr} :
       handleAdd(which, val)
  \/ \E which \in Lists, val \in {<<"a">>, <<"b">>, <<"c">>, <<"d">>} :
       handleRemove(which, val)

SpecLists == InitLists /\ [][NextLists]_vars

\* C24: after any sequence of handleAdd and handleRemove calls starting from
\* a newly created character, each of the feats, skills and inventory lists
\* contains no two equal entries and no entry that is empty or has leading or
\* trailing whitespace; handleAdd of an entry already present leaves the list
\* unchanged, and handleRemove removes the entry while keeping the order of
\* the rest.
ListsStayClean ==
  \A list \in {feats, skills, inventory} :
    /\ \A i, j \in DOMAIN list : list[i] = list[j] => i = j
    /\ \A i \in DOMAIN list :
         /\ list[i] # EmptyStr
         /\ Head(list[i]) # " "
         /\ list[i][Len(list[i])] # " "
    /\ \A val \in {<<"a">>, <<" ", "b">>, <<"d", " ">>} :
         (\E i \in DOMAIN list : list[i] = trim(val)) => Added(list, val) = list
    /\ \A i \in DOMAIN list : Removed(list, list[i]) = RemoveAt(list, i)

\* two edits were made to a feats list that now has several entries
ListEdited == CardShown /\ edits = MaxEdits /\ Len(feats) >= 2 /\ Len(skills) = 1

\* ------------------------------------------------------------------------
\* C25: when the timer of the card's sync effect fires, the App's record of
\* that character gets stats equal to the card's stats with ac set to the
\* displayed armor class, and equipment, feats, skillsSpells, inventory and
\* the detail fields equal to the card's local values at that moment; fields
\* the card does not send, in particular the name, keep their value; a
\* second sync with no edit in between (the record already holds these
\* values) leaves the record's value unchanged.
\* ------------------------------------------------------------------------
SyncWritesCardState ==
  [][SyncStep =>
       \A i \in DOMAIN characters :
         characters[i].name = activeTab =>
           LET before == characters[i]
               after == characters'[i]
               sent == {"stats", "equipment", "feats", "skillsSpells", "inventory"}
                         \cup DOMAIN details
               holds(c) ==
                 /\ \A k \in sent : Has(c, k)
                 /\ c.stats = Spread(stats, [ac |-> ac])
                 /\ c.equipment = equipment
                 /\ c.feats = feats
                 /\ c.skillsSpells = skills
                 /\ c.inventory = inventory
                 /\ \A k \in DOMAIN details : c[k] = details[k]
           IN  /\ holds(after)
               /\ DOMAIN after = DOMAIN before \cup sent
               /\ \A k \in DOMAIN before \ sent : after[k] = before[k]
               /\ after.name = before.name
               /\ holds(before) => after = before]_vars

\* a lowered dexterity and the armor class computed from it are in the record
SyncedEdit ==
  /\ characters # <<>>
  /\ characters[1].name = "ann"
  /\ Has(characters[1].stats, "ac")
  /\ characters[1].stats.dexterity = 2
  /\ characters[1].stats.ac = ac

\* ------------------------------------------------------------------------
\* Reloading the page
\* ------------------------------------------------------------------------
\* the page is loaded again: the App is constructed from local storage, the
\* creation form is shown, the save effect of the first render is due, and
\* the card, its timers, the requests in flight and the module's index cache
\* are gone
Reload ==
  /\ characters' = LoadCharacters(storage)
  /\ activeTab' = "create"
  /\ savePending' = TRUE
  /\ stats' = EmptyObj
  /\ equipment' = EmptyObj
  /\ feats' = <<>>
  /\ skills' = <<>>
  /\ inventory' = <<>>
  /\ details' = EmptyObj
  /\ isEditing' = FALSE
  /\ ac' = 0
  /\ timers' = {}
  /\ sinceEdit' = 0
  /\ requests' = {}
  /\ info' = NoInfo
  /\ endpointIndexCache' = EmptyObj
  /\ itemDetails' = EmptyObj
  /\ itemRuns' = <<>>
  /\ fetched' = {}
  /\ AutoInputMount
  /\ UNCHANGED <<storage, edits>>

\* SpecReload: the App is loaded from a local storage that is empty or holds
\* one record written by any version of the card (with or without an
\* equipment object, with or without head and trinket entries); the card is
\* opened, its three slots are edited, the sync timer and the save effect
\* run, and the page is reloaded at any moment.
InitReload ==
  /\ \/ storage = NoItem
     \/ \E eq \in [{"offHand", "trinket"} -> {ShieldStr}]
                    \cup [{"armor", "head", "trinket"} -> {RobeStr}] :
          storage = Stringify(<<[NewChar("ann", "elf") EXCEPT !.equipment = eq]>>)
     \/ storage = Stringify(<<[k \in DOMAIN NewChar("ann", "elf") \ {"equipment"} |->
                                 NewChar("ann", "elf")[k]]>>)
  /\ characters = LoadCharacters(storage)
  /\ activeTab = "create"
  /\ savePending = TRUE
  /\ NoCardState
  /\ endpointIndexCache = EmptyObj

NextReload ==
  \/ \E tab \in {"ann", "create"} : ClickTab(tab)
  \/ \E slot \in Slots, value \in {EmptyStr, ShieldStr} : handleEquipChange(slot, value)
  \/ SaveEffect
  \/ Clock
  \/ Reload

SpecReload == InitReload /\ [][NextReload]_vars

\* C26: reloading the App when no save effect and no sync timer is pending
\* yields the same characters list as before the reload (same records in the
\* same order with the same field values); with nothing stored the list
\* starts empty.
ReloadKeepsList ==
  /\ [][(Reload /\ ~savePending /\ timers = {}) => characters' = characters]_vars
  /\ [][(Reload /\ storage = NoItem) => characters' = <<>>]_vars

\* a record edited through the card was synced and saved, the card was left
\* and the page was reloaded
ReloadedAfterEdit ==
  /\ savePending /\ activeTab = "create" /\ edits > 0
  /\ storage # NoItem
  /\ characters = LoadCharacters(storage)
  /\ characters # <<>>
  /\ Has(characters[1].stats, "ac")
  /\ Has(characters[1].equipment, "offHand")

\* C27: after loading, and in every state reachable afterwards through the
\* three-slot card (armor, main-hand, off-hand), no character record in the
\* App's list has a "head" or "trinket" entry in its equipment, whatever the
\* stored records contained; the load-time migration changes no other field
\* of any record (loading the stored text gives the parsed records but for
\* these two entries).
NoLegacySlots ==
  /\ \A i \in DOMAIN characters :
       Has(characters[i], "equipment") =>
         DOMAIN characters[i].equipment \cap {"head", "trinket"} = {}
  /\ storage # NoItem =>
       LET raw == Parse(storage)
           loaded == LoadCharacters(storage)
       IN  /\ DOMAIN loaded = DOMAIN raw
           /\ \A i \in DOMAIN raw :
                /\ DOMAIN loaded[i] = DOMAIN raw[i]
                /\ \A k \in DOMAIN raw[i] \ {"equipment"} : loaded[i][k] = raw[i][k]
                /\ Has(raw[i], "equipment") =>
                     /\ DOMAIN loaded[i].equipment =
                          DOMAIN raw[i].equipment \ {"head", "trinket"}
                     /\ \A k \in DOMAIN loaded[i].equipment :
                          loaded[i].equipment[k] = raw[i].equipment[k]

\* a stored record with a trinket and an off-hand item has been loaded
LegacyRecordLoaded ==
  /\ storage # NoItem
  /\ Parse(storage) # <<>>
  /\ Has(Parse(storage)[1], "equipment")
  /\ Has(Parse(storage)[1].equipment, "trinket")
  /\ characters # <<>>
  /\ DOMAIN characters[1].equipment = {"offHand"}

\* ------------------------------------------------------------------------
\* The order of the requests of one lookup
\* ------------------------------------------------------------------------
\* SpecOrder: the main-hand slot of one character's card is given names with
\* and without a magic keyword, whose equipment entries have and lack a
\* description; every request answers in every way.
NextOrder ==
  \/ \E value \in {OrbStr, RingMailStr, ScaleMailStr} : handleEquipChange("mainHand", value)
  \/ Responses

SpecOrder == AnnCreated /\ [][NextOrder]_vars

\* C28: within one useDnDAPI lookup the requests are issued in this order:
\* the entry by slug; then, only if that response is not OK (no result yet),
\* the endpoint index (unless cached) followed by the matched entry; then,
\* only if the result so far has no description and only if the name contains
\* a magic keyword, the magic-items entry by slug.  A non-OK answer of the
\* magic-items request keeps the result obtained before it.
RequestsInOrder ==
  [][/\ \A n \in requests' :
          (\A r \in requests : r.id # n.id) => n.pc = "primary" /\ n.json = Null
     /\ \A r \in requests, n \in requests' :
          (r.id = n.id /\ n.pc # r.pc) =>
            \/ /\ r.pc = "primary" /\ n.pc = "index"
               /\ ~Has(endpointIndexCache, "equipment")
               /\ n.json = Null
            \/ /\ n.pc = "alt" /\ n.json = Null /\ n.match # Null
               /\ \/ r.pc = "index"
                  \/ r.pc = "primary" /\ Has(endpointIndexCache, "equipment")
            \/ /\ r.pc \in {"primary", "alt"} /\ n.pc = "magic"
               /\ n.json # Null
               /\ ~Has(n.json, "desc") \/ n.json.desc = <<>>
               /\ \E kw \in MagicKeywords : includes(toLowerCase(r.name), kw)
     /\ \A r \in requests :
          (/\ r.pc = "magic" /\ r.live
           /\ \A n \in requests' : n.id # r.id
           /\ info'[r.slot].error = Null) =>
            \/ info'[r.slot].data = r.json
            \/ /\ r.slug \in DOMAIN MagicCatalogue
               /\ info'[r.slot].data = MagicCatalogue[r.slug]]_vars

\* a magic-items request follows the index and the matched entry
MagicAfterFallback ==
  \E r \in requests : r.pc = "magic" /\ r.match # Null /\ r.live

\* ------------------------------------------------------------------------
\* The entry chosen by the index fallback
\* ------------------------------------------------------------------------
\* SpecMatch: the main-hand slot is given names sharing one or two words
\* with index entries, a name that equals one entry's name up to case and is
\* the slug of a later entry's index, and a name that shares nothing; every
\* request answers in every way.
NextMatch ==
  \/ \E value \in {<<"M","a","i","l">>,
                   <<"R","i","n","g"," ","M","a","i","l"," ","+","1">>,
                   OrbStr, RobeStr} : handleEquipChange("mainHand", value)
  \/ Responses

SpecMatch == AnnCreated /\ [][NextMatch]_vars

\* C29: in the index fallback, the entry chosen is the first index entry
\* whose normalized name equals the normalized query or whose index equals
\* the slug; if there is none, the first entry having the highest number of
\* tokens in common with the query, provided that number is at least one; if
\* no entry shares a token, no entry is chosen and the lookup ends with the
\* primary-fetch error.
FallbackChoosesAsClaimed ==
  [][\A r \in requests \ requests' :
       r.pc \in {"primary", "index"} =>
         LET results == EquipmentIndex
             wanted == RangeOf(tokens(r.name))
             common == [i \in DOMAIN results |->
                          Cardinality(RangeOf(tokens(results[i].name)) \cap wanted)]
             exact == { i \in DOMAIN results :
                          \/ normalize(results[i].name) = normalize(r.name)
                          \/ results[i].index = r.slug }
             top == { i \in DOMAIN results :
                        common[i] >= 1 /\ \A j \in DOMAIN results : common[j] <= common[i] }
             pool == IF exact # {} THEN exact ELSE top
             first == CHOOSE i \in pool : \A j \in pool : i <= j
             after == { n \in requests' : n.id = r.id }
         IN  /\ \A n \in after : n.pc = "alt" => pool # {} /\ n.match = results[first]
             /\ (/\ r.live /\ after = {}
                 /\ info[r.slot].error # ErrPrimary
                 /\ info'[r.slot].error = ErrPrimary) => pool = {}
             /\ (/\ r.pc = "index" /\ r.live /\ after = {}
                 /\ info'[r.slot].error \notin {ErrIndex, ErrNetwork}) =>
                    pool = {} /\ info'[r.slot].error = ErrPrimary]_vars

\* "Mail" shares one word with two entries: the first of them is fetched
FirstOfEqualScores ==
  \E r \in requests :
    /\ r.pc = "alt" /\ r.name = <<"M","a","i","l">>
    /\ r.match = EquipmentIndex[1]

====
